---- MODULE Spec2Model ----
(***************************************************************************)
(* Model of app.py: a FastAPI service over one PostgreSQL table.           *)
(*   - startup_event: bounded retry of create_all + "SELECT 1"             *)
(*   - GET /health, GET /                                                  *)
(*   - POST /employees, GET /employees/{emp_id}, each with a get_db        *)
(*     session                                                             *)
(* The database is the environment: it is reachable ("up"), unreachable    *)
(* ("down": every statement raises sqlalchemy OperationalError) or answers *)
(* statements with another DBAPI error ("fault", e.g. ProgrammingError:    *)
(* permission denied).                                                     *)
(***************************************************************************)
EXTENDS Integers, Sequences, FiniteSets, TLC

\* ----------------------------------------------------------------- bound
\* values the model lets the id sequence of table employees hand out
MaxIds == 2

\* ------------------------------------------------------ program constants
\* app.py:94  max_retries = 10
max_retries == 10
\* app.py:105 cap of the backoff, min(2 ** attempt, 10)
WaitCap == 10
\* app.py:57  String(255)
NameColumnLen == 255

VARIABLES
    phase,      \* "starting" (startup_event runs), "returned" (it returned),
                \* "serving" (requests are accepted), "exited" (startup raised)
    attempt,    \* startup_event: the loop variable; max_retries + 1 once
                \* range(1, max_retries + 1) is exhausted
    spc,        \* startup_event: next statement of the try block
    waits,      \* startup_event: the time.sleep() calls made so far, in order
    db_ready,   \* app.state.db_ready: "unset", "True" or "False"
    dbState,    \* the database server: "up", "down" or "fault"
    schema,     \* whether table employees exists
    employees,  \* the committed rows of table employees: records [id, name]
    seq,        \* the next value of the sequence behind employees.id
    pc,         \* per request slot: "idle", "open" (session acquired),
                \* "inserted" (INSERT flushed), "committed", "handled" (the
                \* handler returned or raised), "done" (get_db has finished)
    req,        \* per request slot: the request being handled
    sess,       \* per request slot: the get_db session: "none", "open", "closed"
    emp,        \* per request slot: the ORM object's primary key after INSERT
    resp        \* per request slot: the response the handler produced

vars == <<phase, attempt, spc, waits, db_ready, dbState, schema, employees,
          seq, pc, req, sess, emp, resp>>

startupVars == <<attempt, spc, waits, db_ready>>
reqVars == <<pc, req, sess, emp, resp>>

\* the requests the server handles at one time: two slots, each taking one
\* request after another, so that any two requests can overlap
Reqs == {"r1", "r2"}

DbStates == {"up", "down", "fault"}

\* -------------------------------------------------------------- helpers
Min(a, b) == IF a <= b THEN a ELSE b

\* 2 ** n
RECURSIVE Pow2(_)
Pow2(n) == IF n <= 0 THEN 1 ELSE 2 * Pow2(n - 1)

\* a string of n copies of character c
Rep(c, n) == [i \in 1..n |-> c]

\* what one statement sent to the database does
\*   "ok"                the statement runs
\*   "OperationalError"  the server cannot be reached
\*   "DBAPIError"        the server refuses the statement
Outcome(db) ==
    CASE db = "up" -> "ok"
      [] db = "down" -> "OperationalError"
      [] OTHER -> "DBAPIError"

NoResp == [code |-> 0, body |-> [detail |-> "none"]]
NoReq == [kind |-> "none", hasName |-> FALSE, name |-> <<>>, id |-> 0]

\* ------------------------------------------------------------- startup
\* wait = min(2 ** attempt, 10)
WaitForUncapped(a) == Pow2(a)
WaitFor(a) == Min(Pow2(a), WaitCap)

\* except OperationalError: db_ready = False, sleep(wait), next iteration
StartupRetry ==
    /\ db_ready' = "False"
    /\ waits' = Append(waits, WaitFor(attempt))
    /\ attempt' = attempt + 1
    /\ spc' = "create_all"
    /\ UNCHANGED phase

\* an exception that is no OperationalError leaves startup_event
StartupRaise ==
    /\ phase' = "exited"
    /\ UNCHANGED <<attempt, spc, waits, db_ready>>

\* Base.metadata.create_all(bind=engine)
StartupCreateAll ==
    /\ phase = "starting"
    /\ attempt <= max_retries
    /\ spc = "create_all"
    /\ CASE Outcome(dbState) = "ok" ->
              /\ schema' = TRUE
              /\ spc' = "ping"
              /\ UNCHANGED <<phase, attempt, waits, db_ready>>
         [] Outcome(dbState) = "OperationalError" ->
              /\ StartupRetry
              /\ UNCHANGED schema
         [] OTHER ->
              /\ StartupRaise
              /\ UNCHANGED schema
    /\ UNCHANGED <<dbState, employees, seq, reqVars>>

\* with engine.connect() as conn: conn.execute(text("SELECT 1"));
\* app.state.db_ready = True; return
StartupSucceedGoOn ==
    /\ db_ready' = "True"
    /\ attempt' = attempt + 1
    /\ spc' = "create_all"
    /\ UNCHANGED <<phase, waits>>
StartupSucceed ==
    /\ db_ready' = "True"
    /\ phase' = "returned"
    /\ UNCHANGED <<attempt, spc, waits>>

StartupPing ==
    /\ phase = "starting"
    /\ attempt <= max_retries
    /\ spc = "ping"
    /\ CASE Outcome(dbState) = "ok" -> StartupSucceed
         [] Outcome(dbState) = "OperationalError" -> StartupRetry
         [] OTHER -> StartupRaise
    /\ UNCHANGED <<dbState, schema, employees, seq, reqVars>>

\* the loop is exhausted: print(...) and return
StartupGiveUp ==
    /\ phase = "starting"
    /\ attempt > max_retries
    /\ phase' = "returned"
    /\ UNCHANGED <<startupVars, dbState, schema, employees, seq, reqVars>>

\* uvicorn accepts requests once the startup handlers have returned;
\* startup_event's frame (attempt, its sleeps) is gone
Serve ==
    /\ phase = "returned"
    /\ phase' = "serving"
    /\ attempt' = 1
    /\ spc' = "create_all"
    /\ waits' = <<>>
    /\ UNCHANGED <<db_ready, dbState, schema, employees, seq, reqVars>>

\* the process is started again (python app.py) against the same database
Restart ==
    /\ phase \in {"serving", "exited"}
    /\ phase' = "starting"
    /\ attempt' = 1
    /\ spc' = "create_all"
    /\ waits' = <<>>
    /\ db_ready' = "unset"
    /\ pc' = [r \in Reqs |-> "idle"]
    /\ req' = [r \in Reqs |-> NoReq]
    /\ sess' = [r \in Reqs |-> "none"]
    /\ emp' = [r \in Reqs |-> 0]
    /\ resp' = [r \in Reqs |-> NoResp]
    /\ UNCHANGED <<dbState, schema, employees, seq>>

\* the environment: the database goes down, comes back, or starts refusing
DbChange ==
    /\ \E s \in DbStates \ {dbState} : dbState' = s
    /\ UNCHANGED <<phase, startupVars, schema, employees, seq, reqVars>>

\* -------------------------------------------------------------- health
\* GET /health: one "SELECT 1"; except Exception -> HTTPException(503,
\* detail=response), which FastAPI renders as {"detail": <detail>}
HealthResponse(db) ==
    IF Outcome(db) = "ok"
    THEN [code |-> 200, body |-> [status |-> "ok", db |-> "ok"]]
    ELSE [code |-> 503, body |-> [detail |-> [status |-> "ok", db |-> "down"]]]

\* ---------------------------------------------------------------- CRUD
\* names posted to /employees: the empty string, which the schema accepts;
\* a name that fills the column exactly; and that name followed by one
\* blank, which the column stores cut to its length
Names ==
    { <<>>,
      Rep("a", NameColumnLen),
      Rep("a", NameColumnLen) \o <<" ">> }

\* path parameters tried for GET /employees/{emp_id}
GetIds == 1..(MaxIds + 1)

\* EmployeeCreate: name: str -- the field must be present and a string
Valid(hasName, name) == hasName

\* name VARCHAR(255): PostgreSQL stores a longer value only when the excess
\* is blanks, cut to the column's length, and refuses it otherwise
Fits(name) ==
    \/ Len(name) <= NameColumnLen
    \/ \A i \in (NameColumnLen + 1)..Len(name) : name[i] = " "

Stored(name) ==
    IF Len(name) <= NameColumnLen THEN name ELSE SubSeq(name, 1, NameColumnLen)

\* db.query(Employee).filter(Employee.id == emp_id).first()
Lookup(rows, id) ==
    IF \E e \in rows : e.id = id
    THEN {CHOOSE e \in rows : e.id = id}
    ELSE {}

EmployeeOut(e) == [id |-> e.id, name |-> e.name]

Http(code, detail) == [code |-> code, body |-> [detail |-> detail]]

\* get_db: db = SessionLocal(); try: yield db
Acquire(r) == sess' = [sess EXCEPT ![r] = "open"]

\* the handler returns or raises: its response is fixed, get_db is still
\* suspended at its yield, the session still open
Return(r, response) ==
    /\ pc' = [pc EXCEPT ![r] = "handled"]
    /\ resp' = [resp EXCEPT ![r] = response]
    /\ UNCHANGED sess

\* get_db: finally: db.close()
ReleaseUnlessError(r) ==
    sess' = [sess EXCEPT ![r] = IF resp[r].code >= 400 THEN "open" ELSE "closed"]
Release(r) == sess' = [sess EXCEPT ![r] = "closed"]

\* the framework resumes get_db after the handler: the finally block runs
Teardown(r) ==
    /\ phase = "serving"
    /\ pc[r] = "handled"
    /\ Release(r)
    /\ pc' = [pc EXCEPT ![r] = "done"]
    /\ UNCHANGED <<phase, startupVars, dbState, schema, employees, seq, req, emp, resp>>

\* the POST requests that have not sent their INSERT yet
Inserting == {q \in Reqs : pc[q] = "open" /\ req[q].kind = "POST"}

\* POST /employees arrives: get_db opens the session, then the body is
\* validated; an invalid body ends the request before the handler runs
BeginPost(r, hasName, name) ==
    /\ phase = "serving"
    /\ pc[r] \in {"idle", "done"}
    /\ Valid(hasName, name) => seq + Cardinality(Inserting) <= MaxIds
    /\ req' = [req EXCEPT ![r] = [kind |-> "POST", hasName |-> hasName,
                                  name |-> name, id |-> 0]]
    /\ emp' = [emp EXCEPT ![r] = 0]
    /\ Acquire(r)
    /\ IF Valid(hasName, name)
       THEN /\ pc' = [pc EXCEPT ![r] = "open"]
            /\ resp' = [resp EXCEPT ![r] = NoResp]
       ELSE /\ pc' = [pc EXCEPT ![r] = "handled"]
            /\ resp' = [resp EXCEPT ![r] = Http(422, "field required")]
    /\ UNCHANGED <<phase, startupVars, dbState, schema, employees, seq>>

\* emp = Employee(name=payload.name); db.add(emp); db.commit(), first half:
\* the flush sends INSERT ... RETURNING id, which takes the next value of
\* the sequence; the value is not given back if the transaction rolls back
PostInsert(r) ==
    /\ phase = "serving"
    /\ pc[r] = "open"
    /\ req[r].kind = "POST"
    /\ IF Outcome(dbState) = "ok" /\ schema /\ Fits(req[r].name)
       THEN /\ emp' = [emp EXCEPT ![r] = seq]
            /\ seq' = seq + 1
            /\ pc' = [pc EXCEPT ![r] = "inserted"]
            /\ UNCHANGED <<sess, resp>>
       ELSE /\ Return(r, Http(500, "Internal Server Error"))
            /\ UNCHANGED <<emp, seq>>
    /\ UNCHANGED <<phase, startupVars, dbState, schema, employees, req>>

\* db.commit(), second half: COMMIT makes the row visible; if it raises the
\* transaction is rolled back and the exception leaves the handler
InsertRow(rows, id, name) == rows \cup {[id |-> id, name |-> Stored(name)]}

PostCommit(r) ==
    /\ phase = "serving"
    /\ pc[r] = "inserted"
    /\ IF Outcome(dbState) = "ok"
       THEN /\ employees' = InsertRow(employees, emp[r], req[r].name)
            /\ pc' = [pc EXCEPT ![r] = "committed"]
            /\ UNCHANGED <<sess, resp>>
       ELSE /\ Return(r, Http(500, "Internal Server Error"))
            /\ UNCHANGED employees
    /\ UNCHANGED <<phase, startupVars, dbState, schema, seq, req, emp>>

\* db.refresh(emp); return emp
PostRefresh(r) ==
    /\ phase = "serving"
    /\ pc[r] = "committed"
    /\ IF Outcome(dbState) = "ok"
       THEN \E e \in Lookup(employees, emp[r]) :
                Return(r, [code |-> 200, body |-> EmployeeOut(e)])
       ELSE Return(r, Http(500, "Internal Server Error"))
    /\ UNCHANGED <<phase, startupVars, dbState, schema, employees, seq, req, emp>>

\* GET /employees/{emp_id} arrives: get_db opens the session
BeginGet(r, id) ==
    /\ phase = "serving"
    /\ pc[r] \in {"idle", "done"}
    /\ req' = [req EXCEPT ![r] = [kind |-> "GET", hasName |-> FALSE,
                                  name |-> <<>>, id |-> id]]
    /\ emp' = [emp EXCEPT ![r] = 0]
    /\ Acquire(r)
    /\ pc' = [pc EXCEPT ![r] = "open"]
    /\ resp' = [resp EXCEPT ![r] = NoResp]
    /\ UNCHANGED <<phase, startupVars, dbState, schema, employees, seq>>

\* emp = query...first(); if not emp: raise HTTPException(404); return emp
GetResponseAlwaysFound(rows, id) ==
    [code |-> 200, body |-> [id |-> id, name |-> <<>>]]
GetResponseFirstRow(rows, id) ==
    IF rows = {}
    THEN Http(404, "Employee not found")
    ELSE [code |-> 200, body |-> EmployeeOut(CHOOSE e \in rows : \A f \in rows : e.id <= f.id)]
GetResponse(rows, id) ==
    IF Lookup(rows, id) = {}
    THEN Http(404, "Employee not found")
    ELSE [code |-> 200, body |-> EmployeeOut(CHOOSE e \in Lookup(rows, id) : TRUE)]

GetQuery(r) ==
    /\ phase = "serving"
    /\ pc[r] = "open"
    /\ req[r].kind = "GET"
    /\ IF Outcome(dbState) = "ok" /\ schema
       THEN Return(r, GetResponse(employees, req[r].id))
       ELSE Return(r, Http(500, "Internal Server Error"))
    /\ UNCHANGED <<phase, startupVars, dbState, schema, employees, seq, req, emp>>

\* GET /health: no session, one ping, one response
Health(r) ==
    /\ phase = "serving"
    /\ pc[r] \in {"idle", "done"}
    /\ req' = [req EXCEPT ![r] = [NoReq EXCEPT !.kind = "HEALTH"]]
    /\ emp' = [emp EXCEPT ![r] = 0]
    /\ pc' = [pc EXCEPT ![r] = "done"]
    /\ sess' = [sess EXCEPT ![r] = "none"]
    /\ resp' = [resp EXCEPT ![r] = HealthResponse(dbState)]
    /\ UNCHANGED <<phase, startupVars, dbState, schema, employees, seq>>

\* GET /: a static message, no database access
Root(r) ==
    /\ phase = "serving"
    /\ pc[r] \in {"idle", "done"}
    /\ req' = [req EXCEPT ![r] = [NoReq EXCEPT !.kind = "ROOT"]]
    /\ emp' = [emp EXCEPT ![r] = 0]
    /\ pc' = [pc EXCEPT ![r] = "done"]
    /\ sess' = [sess EXCEPT ![r] = "none"]
    /\ resp' = [resp EXCEPT ![r] = [code |-> 200, body |-> [message |-> "running"]]]
    /\ UNCHANGED <<phase, startupVars, dbState, schema, employees, seq>>

Init ==
    /\ phase = "starting"
    /\ attempt = 1
    /\ spc = "create_all"
    /\ waits = <<>>
    /\ db_ready = "unset"
    /\ dbState \in DbStates
    /\ schema = FALSE
    /\ employees = {}
    /\ seq = 1
    /\ pc = [r \in Reqs |-> "idle"]
    /\ req = [r \in Reqs |-> NoReq]
    /\ sess = [r \in Reqs |-> "none"]
    /\ emp = [r \in Reqs |-> 0]
    /\ resp = [r \in Reqs |-> NoResp]

Next ==
    \/ StartupCreateAll
    \/ StartupPing
    \/ StartupGiveUp
    \/ Serve
    \/ Restart
    \/ DbChange
    \/ \E r \in Reqs : Health(r)
    \/ \E r \in Reqs : Root(r)
    \/ \E r \in Reqs, n \in Names : BeginPost(r, TRUE, n)
    \/ \E r \in Reqs : BeginPost(r, FALSE, <<>>)
    \/ \E r \in Reqs : PostInsert(r)
    \/ \E r \in Reqs : PostCommit(r)
    \/ \E r \in Reqs : PostRefresh(r)
    \/ \E r \in Reqs, i \in GetIds : BeginGet(r, i)
    \/ \E r \in Reqs : GetQuery(r)
    \/ \E r \in Reqs : Teardown(r)

Spec == Init /\ [][Next]_vars
\* ================================================================ claims
\* the request in slot r, of that kind, has its response
Answered(r, kind) == pc[r] \in {"handled", "done"} /\ req[r].kind = kind

\* the schedule of section 8 of the specification
BackoffSchedule == <<2, 4, 8, 10, 10, 10, 10, 10, 10, 10>>

\* C1: startup_event makes at most 10 attempts; the sleeps it has made are
\* always the first ones of 2,4,8,10,10,10,10,10,10,10, one per failed
\* attempt; when all attempts failed for an unreachable database it has
\* slept exactly that list and returns normally.
C1_Backoff ==
    /\ attempt <= max_retries + 1
    /\ Len(waits) <= max_retries
    /\ waits = SubSeq(BackoffSchedule, 1, Len(waits))
    /\ phase = "starting" => Len(waits) = attempt - 1
    /\ (phase \in {"starting", "returned"} /\ attempt > max_retries)
          => waits = BackoffSchedule
    /\ (phase = "returned" /\ db_ready # "True") => waits = BackoffSchedule

C1_Witness ==
    phase = "returned" /\ db_ready = "False" /\ waits = BackoffSchedule

\* C2: when startup_event has ended, db_ready is true exactly when an
\* attempt succeeded; the loop stops at the first success (the flag is never
\* true while the loop runs, and no sleep follows the success); after ten
\* failed attempts db_ready is false.
C2_ReadyFlag ==
    /\ phase = "starting" => db_ready # "True"
    /\ phase = "exited" => db_ready # "True"
    /\ phase = "returned" =>
          /\ db_ready = "True" <=> attempt <= max_retries
          /\ db_ready = "True" => (spc = "ping" /\ Len(waits) = attempt - 1)
          /\ attempt > max_retries => db_ready = "False"

C2_Witness ==
    phase = "returned" /\ db_ready = "True" /\ Len(waits) = 2

\* C3: every answer of GET /health is 200 {status: ok, db: ok} or
\* 503 {status: ok, db: down}.
C3_HealthBody ==
    \A r \in Reqs : Answered(r, "HEALTH") =>
        \/ resp[r] = [code |-> 200, body |-> [status |-> "ok", db |-> "ok"]]
        \/ resp[r] = [code |-> 503, body |-> [status |-> "ok", db |-> "down"]]

\* C4: no failure of create_all or of the ping makes startup_event raise.
C4_StartupNeverRaises == phase # "exited"

\* C5 as claimed: a successful POST /employees returns the posted name,
\* and every later GET /employees/{id} the database answers returns 200
\* with that id and the posted name.
C5_PostedNameComesBack ==
    [][\A p \in Reqs, g \in Reqs :
          (/\ Answered(p, "POST")
           /\ resp[p].code = 200)
          => /\ resp[p].body.name = req[p].name
             /\ (/\ pc[g] = "open"
                 /\ req[g].kind = "GET"
                 /\ req[g].id = resp[p].body.id
                 /\ pc'[g] = "handled"
                 /\ resp'[g].code # 500)
                => resp'[g] = [code |-> 200,
                               body |-> [id |-> resp[p].body.id,
                                         name |-> req[p].name]]]_vars

\* C5 as amended: a successful POST /employees returns the record (id, name)
\* it stored, whose name is the posted name cut to the column's 255
\* characters (the posted name itself when that has at most 255); every
\* later GET /employees/{id} the database answers returns 200 with that
\* record, whatever the other slot did in between.
C5_RoundTrip ==
    [][\A p \in Reqs, g \in Reqs :
          (/\ Answered(p, "POST")
           /\ resp[p].code = 200)
          => /\ resp[p].body.name = SubSeq(req[p].name, 1,
                                           Min(Len(req[p].name), NameColumnLen))
             /\ Len(req[p].name) <= NameColumnLen
                   => resp[p].body.name = req[p].name
             /\ (/\ pc[g] = "open"
                 /\ req[g].kind = "GET"
                 /\ req[g].id = resp[p].body.id
                 /\ pc'[g] = "handled"
                 /\ resp'[g].code # 500)
                => resp'[g] = [code |-> 200, body |-> resp[p].body]]_vars

\* a name longer than the column came back cut, from POST and from a GET,
\* as the second row of the table
C5_Witness ==
    \E p \in Reqs, g \in Reqs :
        /\ Answered(p, "POST") /\ resp[p].code = 200
        /\ Len(req[p].name) > NameColumnLen
        /\ Answered(g, "GET") /\ req[g].id = resp[p].body.id
        /\ resp[g] = [code |-> 200, body |-> resp[p].body]
        /\ resp[p].body.id = 2

\* C6: when the database answers the lookup, GET /employees/{id} returns
\* 404 "Employee not found" if no row has that id and 200 with the row's
\* {id, name} if one has; it fails (500) only when the database does not
\* answer.
C6_NotFound ==
    [][\A g \in Reqs :
          (pc[g] = "open" /\ req[g].kind = "GET" /\ pc'[g] = "handled")
          => IF dbState = "up" /\ schema
             THEN IF \E e \in employees : e.id = req[g].id
                  THEN /\ resp'[g].code = 200
                       /\ resp'[g].body.id = req[g].id
                       /\ \E e \in employees : resp'[g].body = [id |-> e.id, name |-> e.name]
                  ELSE resp'[g] = [code |-> 404, body |-> [detail |-> "Employee not found"]]
             ELSE resp'[g].code = 500]_vars

C6_Witness ==
    \E g \in Reqs, h \in Reqs :
        /\ Answered(g, "GET") /\ resp[g].code = 404
        /\ ~ \E e \in employees : e.id = req[g].id
        /\ Answered(h, "GET") /\ resp[h].code = 200
        /\ employees # {}

\* C7: each request has its own session, open from get_db's yield until
\* get_db's finally block has run, which it does after the handler returned
\* or raised, on every way out (200, 404, 422 or 500): a request that has
\* finished has its session closed, so when no request is in flight no
\* session is open.
C7_SessionsReleased ==
    \A r \in Reqs :
        /\ sess[r] = "open" <=> pc[r] \in {"open", "inserted", "committed", "handled"}
        /\ (pc[r] = "done" /\ req[r].kind \in {"POST", "GET"}) => sess[r] = "closed"

C7_Witness ==
    \E p \in Reqs, g \in Reqs :
        /\ pc[p] = "done" /\ req[p].kind = "POST"
        /\ resp[p].code = 500 /\ emp[p] # 0
        /\ ~ \E e \in employees : e.id = emp[p]
        /\ pc[g] = "done" /\ req[g].kind = "GET" /\ resp[g].code = 404
        /\ \A r \in Reqs : sess[r] = "closed"

\* C8: every row of employees has a non-empty name.
C8_NonEmptyNames == \A e \in employees : e.name # <<>>

\* C9: a POST /employees that failed (5xx) has left no row behind: the
\* table holds no row with the id its INSERT took.
C9_FailedPostPersistsNothing ==
    \A r \in Reqs :
        (Answered(r, "POST") /\ resp[r].code >= 500)
        => ~ \E e \in employees : e.id = emp[r]

\* C10: ids are pairwise distinct, no step changes or removes a row, a step
\* adds at most one row and only the commit of a POST does, and a POST that
\* added a row ends successfully.
C10_RowsStable ==
    [][/\ \A e \in employees : e \in employees'
       /\ \A e \in employees', f \in employees' : e.id = f.id => e = f
       /\ employees' # employees =>
             /\ Cardinality(employees') = Cardinality(employees) + 1
             /\ \E r \in Reqs : /\ req[r].kind = "POST"
                                /\ pc[r] = "inserted"
                                /\ pc'[r] = "committed"
       /\ \A r \in Reqs : (pc[r] = "committed" /\ pc'[r] = "handled")
                             => resp'[r].code = 200]_vars
====
